---- MODULE Spec2Model ----
(***************************************************************************)
(* Multi-step intake form: step controller, per-step validators, file      *)
(* validator and draft persistence (localStorage), modelled from the       *)
(* React components MultiStepForm, BasicDetailsForm,                       *)
(* ProfessionalDetailsForm, ExperienceForm, IdentityVerificationForm and   *)
(* FileUpload.                                                             *)
(***************************************************************************)
EXTENDS Integers, Sequences, FiniteSets, TLC

(***************************************************************************)
(* Bounds of the model                                                     *)
(***************************************************************************)
\* change events (field edits, accepted file selections, list add/remove)
\* and draft saves explored from each initial state
MaxEvents == 2
\* longest certification list the user builds
MaxCertifications == 3
\* longest position list the user builds
MaxPositions == 2

VARIABLES
    formData,           \* MultiStepForm state: the aggregate form record
    currentStep,        \* MultiStepForm state: the step whose form is mounted
    animationDirection, \* MultiStepForm state: 'forward' | 'backward'
    errors,             \* the mounted step form's error map (path -> message)
    localStorage,       \* the two storage keys: [data, files]
    toast,              \* last notification handed to the toast collaborator
    consoleError,       \* whether the load effect logged a parse error
    mounted,            \* FALSE until the mount effect (draft load) has run
    urlCounter,         \* object URLs handed out by URL.createObjectURL
    events,             \* change and save events so far (bounded by MaxEvents)
    lastSave            \* the wizard state at the latest save of this behaviour

vars == <<formData, currentStep, animationDirection, errors, localStorage,
          toast, consoleError, mounted, urlCounter, events, lastSave>>

(***************************************************************************)
(* JavaScript values                                                       *)
(***************************************************************************)
Null == [kind |-> "null"]

File(type, size) == [kind |-> "File", type |-> type, size |-> size]

\* URL.createObjectURL: a fresh blob URL per call
createObjectURL(n) == [kind |-> "string", value |-> "blob:" \o ToString(n)]

\* a blob URL created in an earlier browser session
EarlierURL(tag) == [kind |-> "string", value |-> "blob:earlier-" \o tag]

emptyFile == [file |-> Null, preview |-> Null]

(***************************************************************************)
(* File validator (FileUpload.validateFile)                                *)
(***************************************************************************)
validTypes == {"application/pdf", "image/jpeg", "image/png", "image/jpg"}

maxSize == 5 * 1024 * 1024

TypeMessage == "Only PDF, JPG, and PNG files are allowed"

SizeMessage == "File size must be less than 5MB"

\* validateFile without the size rule
validateFileNoSizeLimit(file) ==
    IF file.type \notin validTypes
    THEN [valid |-> FALSE, message |-> TypeMessage]
    ELSE [valid |-> TRUE, message |-> ""]

\* validateFile with the size rule checked before the type rule
validateFileSizeFirst(file) ==
    IF file.size > maxSize
    THEN [valid |-> FALSE, message |-> SizeMessage]
    ELSE IF file.type \notin validTypes
         THEN [valid |-> FALSE, message |-> TypeMessage]
         ELSE [valid |-> TRUE, message |-> ""]

\* validateFile rejecting a file of exactly maxSize bytes
validateFileStrict(file) ==
    IF file.type \notin validTypes
    THEN [valid |-> FALSE, message |-> TypeMessage]
    ELSE IF file.size >= maxSize
         THEN [valid |-> FALSE, message |-> SizeMessage]
         ELSE [valid |-> TRUE, message |-> ""]

validateFile(file) ==
    IF file.type \notin validTypes
    THEN [valid |-> FALSE, message |-> TypeMessage]
    ELSE IF file.size > maxSize
         THEN [valid |-> FALSE, message |-> SizeMessage]
         ELSE [valid |-> TRUE, message |-> ""]

\* the files a user may pick or drop: every accepted declared type, a type
\* that is not accepted, an undeclared type; sizes from the empty file to
\* one byte over the limit
FileTypes == validTypes \cup {"image/gif", ""}

FileSizes == {0, 1, 1024, maxSize - 1, maxSize, maxSize + 1}

Files == {File(t, s) : t \in FileTypes, s \in FileSizes}

\* the files offered while the whole wizard is explored: one accepted, one
\* of a wrong type and too large, one of an accepted type and too large
PickedFiles ==
    {File("application/pdf", maxSize), File("image/gif", maxSize + 1),
     File("image/png", maxSize + 1)}

(***************************************************************************)
(* Initial form data (MultiStepForm)                                       *)
(***************************************************************************)
initialQualification ==
    [degreeType |-> "", institutionName |-> "", graduationYear |-> "",
     document |-> [file |-> Null, preview |-> Null]]

initialCertification ==
    [name |-> "", issuingBody |-> "", date |-> "",
     document |-> [file |-> Null, preview |-> Null]]

initialBarRegistration ==
    [association |-> "", licenseNumber |-> "", jurisdiction |-> "",
     completionYear |-> "", document |-> [file |-> Null, preview |-> Null]]

emptyPosition ==
    [title |-> "", company |-> "", startDate |-> "", endDate |-> "",
     current |-> FALSE, description |-> ""]

initialFormData ==
    [basicDetails |-> [firstName |-> "", lastName |-> "", email |-> ""],
     professionalDetails |->
        [qualifications |-> initialQualification,
         certifications |-> <<initialCertification>>,
         barRegistration |-> initialBarRegistration],
     experience |-> [positions |-> <<emptyPosition>>],
     identityVerification |->
        [idType |-> "", idNumber |-> "", expiryDate |-> "",
         document |-> [file |-> Null, preview |-> Null]]]

steps == <<"basicDetails", "professionalDetails", "experience",
           "identityVerification", "verificationStatus">>

\* steps.findIndex(step => step.id === id), 0-based
findIndex(id) == (CHOOSE i \in 1..Len(steps) : steps[i] = id) - 1

\* a stepper that also marks the current step as completed
isStepCompletedOrCurrent(stepId) == findIndex(stepId) <= findIndex(currentStep)

\* FormStepper: the steps drawn as completed
isStepCompleted(stepId) ==
    LET currentIndex == findIndex(currentStep)
        stepIndex == findIndex(stepId)
    IN stepIndex < currentIndex

(***************************************************************************)
(* Validation (zod schemas and each form's validateForm)                   *)
(***************************************************************************)
Issue(path, message) == [path |-> path, message |-> message]

\* z.string().min(1, { message })
minOne(path, value, message) ==
    IF value = "" THEN {Issue(path, message)} ELSE {}

\* z.string().email(): the addresses of the model that match zod's pattern
ValidEmails == {"a@b.com"}

emailIssue(path, value, message) ==
    IF value \notin ValidEmails THEN {Issue(path, message)} ELSE {}

\* fileSchema: file is z.instanceof(File).nullable().refine(file !== null),
\* preview is z.string().nullable()
fileSchema(path, document) ==
    IF document.file = Null
    THEN {Issue(path \o ".file", "Document is required")}
    ELSE {}

\* array index as it appears in a zod issue path (0-based)
PathIndex(i) == ToString(i - 1)

\* a schema that stops at the first failing field
basicDetailsSchemaFirstIssueOnly(data) ==
    IF data.firstName = "" THEN {Issue("firstName", "First name is required")}
    ELSE IF data.lastName = "" THEN {Issue("lastName", "Last name is required")}
    ELSE emailIssue("email", data.email, "Invalid email address")

basicDetailsSchema(data) ==
    minOne("firstName", data.firstName, "First name is required")
    \cup minOne("lastName", data.lastName, "Last name is required")
    \cup emailIssue("email", data.email, "Invalid email address")

qualificationSchema(path, q) ==
    minOne(path \o ".degreeType", q.degreeType, "Degree type is required")
    \cup minOne(path \o ".institutionName", q.institutionName,
                "Institution name is required")
    \cup minOne(path \o ".graduationYear", q.graduationYear,
                "Graduation year is required")
    \cup fileSchema(path \o ".document", q.document)

certificationSchema(path, c) ==
    minOne(path \o ".name", c.name, "Certification name is required")
    \cup minOne(path \o ".issuingBody", c.issuingBody, "Issuing body is required")
    \cup minOne(path \o ".date", c.date, "Date is required")
    \cup fileSchema(path \o ".document", c.document)

barRegistrationSchema(path, b) ==
    minOne(path \o ".association", b.association, "Bar association is required")
    \cup minOne(path \o ".licenseNumber", b.licenseNumber,
                "License number is required")
    \cup minOne(path \o ".jurisdiction", b.jurisdiction, "Jurisdiction is required")
    \cup minOne(path \o ".completionYear", b.completionYear,
                "Completion year is required")
    \cup fileSchema(path \o ".document", b.document)

\* the schema without .min(1) on the certifications array
professionalDetailsSchemaWithoutMin(data) ==
    qualificationSchema("qualifications", data.qualifications)
    \cup UNION {certificationSchema("certifications." \o PathIndex(i),
                                    data.certifications[i]) :
                i \in 1..Len(data.certifications)}
    \cup barRegistrationSchema("barRegistration", data.barRegistration)

professionalDetailsSchema(data) ==
    qualificationSchema("qualifications", data.qualifications)
    \cup (IF Len(data.certifications) < 1
          THEN {Issue("certifications", "At least one certification is required")}
          ELSE {})
    \cup UNION {certificationSchema("certifications." \o PathIndex(i),
                                    data.certifications[i]) :
                i \in 1..Len(data.certifications)}
    \cup barRegistrationSchema("barRegistration", data.barRegistration)

\* a schema that wants the end date empty while current is set
workExperienceSchemaChecksEndDate(path, p) ==
    minOne(path \o ".title", p.title, "Job title is required")
    \cup minOne(path \o ".company", p.company, "Company name is required")
    \cup minOne(path \o ".startDate", p.startDate, "Start date is required")
    \cup minOne(path \o ".description", p.description, "Job description is required")
    \cup (IF p.current /\ p.endDate # ""
          THEN {Issue(path \o ".endDate", "End date must be empty")}
          ELSE {})

\* endDate is z.string().optional() and current is z.boolean(): no issue
workExperienceSchema(path, p) ==
    minOne(path \o ".title", p.title, "Job title is required")
    \cup minOne(path \o ".company", p.company, "Company name is required")
    \cup minOne(path \o ".startDate", p.startDate, "Start date is required")
    \cup minOne(path \o ".description", p.description, "Job description is required")

experienceSchema(data) ==
    (IF Len(data.positions) < 1
     THEN {Issue("positions", "Array must contain at least 1 element(s)")}
     ELSE {})
    \cup UNION {workExperienceSchema("positions." \o PathIndex(i), data.positions[i]) :
                i \in 1..Len(data.positions)}

\* the schema without the document
identityVerificationSchemaWithoutDocument(data) ==
    minOne("idType", data.idType, "ID type is required")
    \cup minOne("idNumber", data.idNumber, "ID number is required")
    \cup minOne("expiryDate", data.expiryDate, "Expiry date is required")

identityVerificationSchema(data) ==
    minOne("idType", data.idType, "ID type is required")
    \cup minOne("idNumber", data.idNumber, "ID number is required")
    \cup minOne("expiryDate", data.expiryDate, "Expiry date is required")
    \cup fileSchema("document", data.document)

\* the schema of the form mounted on a step, applied to that step's sub-record
StepSchema(step, fd) ==
    CASE step = "basicDetails" -> basicDetailsSchema(fd.basicDetails)
      [] step = "professionalDetails" ->
            professionalDetailsSchema(fd.professionalDetails)
      [] step = "experience" -> experienceSchema(fd.experience)
      [] step = "identityVerification" ->
            identityVerificationSchema(fd.identityVerification)
      [] OTHER -> {}

NoErrors == [p \in {} |-> ""]

\* error.errors.forEach(err => formattedErrors[err.path.join('.')] = err.message)
formattedErrors(issues) ==
    [p \in {i.path : i \in issues} |-> (CHOOSE i \in issues : i.path = p).message]

(***************************************************************************)
(* Draft codec (handleSaveDraft and the mount effect of MultiStepForm)     *)
(***************************************************************************)
\* a string that holds the JSON text of a value
JSONText(value) == [kind |-> "json", value |-> value]

\* a string that is not JSON
NotJSON == [kind |-> "text", value |-> "<<not json>>"]

\* a replacer that lets the File through
replacerKeepsFile(document) == document

\* a replacer that nulls the preview together with the file
replacerDropsPreview(document) == [file |-> Null, preview |-> Null]

\* the replacer of handleSaveDraft: key === 'file' && value instanceof File
replacer(document) ==
    [file |-> IF document.file.kind = "File" THEN Null ELSE document.file,
     preview |-> document.preview]

\* a serialisation that leaves the basicDetails section out
formDataToSaveWithoutBasicDetails(fd) ==
    LET pd == fd.professionalDetails
        withoutFile(r) == [r EXCEPT !.document = replacer(r.document)]
    IN JSONText(
        [basicDetails |-> [firstName |-> "", lastName |-> "", email |-> ""],
         professionalDetails |->
            [qualifications |-> withoutFile(pd.qualifications),
             certifications |->
                [i \in 1..Len(pd.certifications) |-> withoutFile(pd.certifications[i])],
             barRegistration |-> withoutFile(pd.barRegistration)],
         experience |-> fd.experience,
         identityVerification |-> withoutFile(fd.identityVerification)])

\* JSON.stringify(formData, replacer)
formDataToSave(fd) ==
    LET pd == fd.professionalDetails
        withoutFile(r) == [r EXCEPT !.document = replacer(r.document)]
    IN JSONText(
        [basicDetails |-> fd.basicDetails,
         professionalDetails |->
            [qualifications |-> withoutFile(pd.qualifications),
             certifications |->
                [i \in 1..Len(pd.certifications) |-> withoutFile(pd.certifications[i])],
             barRegistration |-> withoutFile(pd.barRegistration)],
         experience |-> fd.experience,
         identityVerification |-> withoutFile(fd.identityVerification)])

\* file references that leave the certifications out
fileRefsToSaveWithoutCertifications(fd) ==
    LET pd == fd.professionalDetails
    IN JSONText(
        [qualifications |-> [preview |-> pd.qualifications.document.preview],
         barRegistration |-> [preview |-> pd.barRegistration.document.preview],
         certifications |-> <<>>,
         identityVerification |->
            [preview |-> fd.identityVerification.document.preview]])

\* JSON.stringify(fileRefs)
fileRefsToSave(fd) ==
    LET pd == fd.professionalDetails
    IN JSONText(
        [qualifications |-> [preview |-> pd.qualifications.document.preview],
         barRegistration |-> [preview |-> pd.barRegistration.document.preview],
         certifications |->
            [i \in 1..Len(pd.certifications) |->
                [preview |-> pd.certifications[i].document.preview]],
         identityVerification |->
            [preview |-> fd.identityVerification.document.preview]])

\* what handleSaveDraft leaves under the two keys
savedDraft(fd) == [data |-> formDataToSave(fd), files |-> fileRefsToSave(fd)]

\* an overlay that also clears the preview of a slot Key B has nothing for
restorePreviewsClearsMissing(parsedData, fileRefs) ==
    LET pd == parsedData.professionalDetails
        put(r, ref) == [r EXCEPT !.document.preview = ref.preview]
        clear(r) == [r EXCEPT !.document.preview = Null]
    IN [parsedData EXCEPT
          !.professionalDetails.qualifications = put(@, fileRefs.qualifications),
          !.professionalDetails.barRegistration = put(@, fileRefs.barRegistration),
          !.professionalDetails.certifications =
              [i \in 1..Len(pd.certifications) |->
                  IF i <= Len(fileRefs.certifications)
                  THEN put(pd.certifications[i], fileRefs.certifications[i])
                  ELSE clear(pd.certifications[i])],
          !.identityVerification = put(@, fileRefs.identityVerification)]

\* the preview overlay of the mount effect
restorePreviews(parsedData, fileRefs) ==
    LET pd == parsedData.professionalDetails
        put(r, ref) == IF ref.preview # Null
                       THEN [r EXCEPT !.document.preview = ref.preview]
                       ELSE r
    IN [parsedData EXCEPT
          !.professionalDetails.qualifications = put(@, fileRefs.qualifications),
          !.professionalDetails.barRegistration = put(@, fileRefs.barRegistration),
          !.professionalDetails.certifications =
              [i \in 1..Len(pd.certifications) |->
                  IF i <= Len(fileRefs.certifications)
                  THEN put(pd.certifications[i], fileRefs.certifications[i])
                  ELSE pd.certifications[i]],
          !.identityVerification = put(@, fileRefs.identityVerification)]

DraftLoaded ==
    [title |-> "Draft loaded",
     description |-> "Your previously saved form data has been restored",
     variant |-> "default"]

DraftSaved ==
    [title |-> "Draft saved",
     description |-> "Your form progress has been saved",
     variant |-> "default"]

InvalidFile(message) ==
    [title |-> "Invalid file", description |-> message, variant |-> "destructive"]

NoToast == [title |-> "", description |-> "", variant |-> ""]

\* a mount effect that never restores anything
loadDraftIgnoresDraft(storage) ==
    [formData |-> initialFormData, toast |-> NoToast, logged |-> FALSE]

\* a mount effect that restores the previews of Key B even without Key A
loadDraftWithoutData(storage) ==
    IF storage.files # Null /\ storage.files.kind = "json"
    THEN [formData |->
              restorePreviews(IF storage.data # Null /\ storage.data.kind = "json"
                              THEN storage.data.value ELSE initialFormData,
                              storage.files.value),
          toast |-> DraftLoaded, logged |-> FALSE]
    ELSE [formData |-> initialFormData, toast |-> NoToast, logged |-> FALSE]

\* a mount effect that shows its toast whatever it found in storage
loadDraftAlwaysNotifies(storage) ==
    [formData |-> initialFormData, toast |-> DraftLoaded, logged |-> FALSE]

\* the outcome of the mount effect on a freshly constructed wizard:
\* the form data it leaves, the toast it shows, whether it logged an error
loadDraft(storage) ==
    LET savedData == storage.data
        savedFiles == storage.files
        nothing == [formData |-> initialFormData, toast |-> NoToast, logged |-> FALSE]
    IN IF savedData = Null THEN nothing
       ELSE IF savedData.kind # "json"
       THEN [nothing EXCEPT !.logged = TRUE]
       ELSE IF savedFiles = Null
       THEN [formData |-> savedData.value, toast |-> DraftLoaded, logged |-> FALSE]
       ELSE IF savedFiles.kind # "json"
       THEN [formData |-> savedData.value, toast |-> NoToast, logged |-> TRUE]
       ELSE [formData |-> restorePreviews(savedData.value, savedFiles.value),
             toast |-> DraftLoaded, logged |-> FALSE]

(***************************************************************************)
(* Inputs: what the user can type or pick in each control                  *)
(***************************************************************************)
\* text inputs are typed into or cleared (one field of each kind is followed
\* in both directions, the others are only filled in); Select controls only
\* pick a listed option; date pickers yield date.toISOString() or ''
BasicValues ==
    [firstName |-> {"", "Jane"}, lastName |-> {"Doe"},
     email |-> {"", "a@b.com", "not-an-email"}]

QualificationValues ==
    [degreeType |-> {"Juris Doctor (JD)"}, institutionName |-> {"", "Yale"},
     graduationYear |-> {"2010"}]

CertificationValues ==
    [name |-> {"", "CIPP"}, issuingBody |-> {"IAPP"},
     date |-> {"", "2020-01-01T00:00:00.000Z"}]

BarRegistrationValues ==
    [association |-> {"State Bar of California"}, licenseNumber |-> {"", "12345"},
     jurisdiction |-> {"California"}, completionYear |-> {"2012"}]

PositionValues ==
    [title |-> {"", "Associate"}, company |-> {"Acme"},
     startDate |-> {"", "2015-01-01T00:00:00.000Z"},
     endDate |-> {"", "2019-01-01T00:00:00.000Z"},
     current |-> {TRUE, FALSE}, description |-> {"Litigation"}]

IdentityValues ==
    [idType |-> {"Passport"}, idNumber |-> {"", "X1234567"},
     expiryDate |-> {"", "2030-01-01T00:00:00.000Z"}]

(***************************************************************************)
(* Drafts left in the browser by an earlier session                        *)
(***************************************************************************)
EarlierDocument(tag) ==
    [file |-> File("application/pdf", maxSize), preview |-> EarlierURL(tag)]

EarlierCertification(tag) ==
    [name |-> "CIPP", issuingBody |-> "IAPP", date |-> "2020-01-01T00:00:00.000Z",
     document |-> EarlierDocument(tag)]

\* a form filled in completely, every document selected
CompleteForm ==
    [basicDetails |-> [firstName |-> "Jane", lastName |-> "Doe", email |-> "a@b.com"],
     professionalDetails |->
        [qualifications |->
            [degreeType |-> "Juris Doctor (JD)", institutionName |-> "Yale",
             graduationYear |-> "2010", document |-> EarlierDocument("q")],
         certifications |-> <<EarlierCertification("c0")>>,
         barRegistration |->
            [association |-> "State Bar of California", licenseNumber |-> "12345",
             jurisdiction |-> "California", completionYear |-> "2012",
             document |-> EarlierDocument("b")]],
     experience |->
        [positions |->
            <<[title |-> "Associate", company |-> "Acme",
               startDate |-> "2015-01-01T00:00:00.000Z",
               endDate |-> "2019-01-01T00:00:00.000Z",
               current |-> FALSE, description |-> "Litigation"]>>],
     identityVerification |->
        [idType |-> "Passport", idNumber |-> "X1234567",
         expiryDate |-> "2030-01-01T00:00:00.000Z",
         document |-> EarlierDocument("i")]]

\* a form saved right after its first step was filled in
BasicOnlyForm ==
    [initialFormData EXCEPT
        !.basicDetails = [firstName |-> "Jane", lastName |-> "Doe", email |-> "a@b.com"]]

\* the same with three certifications
ThreeCertificationForm ==
    [CompleteForm EXCEPT !.professionalDetails.certifications =
        <<EarlierCertification("c0"), EarlierCertification("c1"),
          EarlierCertification("c2")>>]

InitialStorages ==
    {[data |-> Null, files |-> Null],
     savedDraft(CompleteForm),
     savedDraft(ThreeCertificationForm),
     savedDraft(BasicOnlyForm),
     [data |-> NotJSON, files |-> Null],
     [data |-> formDataToSave(CompleteForm), files |-> NotJSON],
     [data |-> Null, files |-> fileRefsToSave(CompleteForm)]}

NoSave == [kind |-> "none"]

(***************************************************************************)
(* Initial states.  Constructed is the wizard as constructed, before its   *)
(* mount effect, over each initial storage.  A session that gets past      *)
(* professionalDetails needs three accepted documents, more events than    *)
(* MaxEvents allows, so the exploration continues in legs: SecondLeg is    *)
(* the state Constructed reaches by loading the complete draft, advancing, *)
(* and selecting the qualification and the certification document;         *)
(* ThirdLeg is the state SecondLeg reaches by selecting the bar            *)
(* registration document and advancing.  Each leg starts with the event    *)
(* count at 0.                                                             *)
(***************************************************************************)
Constructed ==
    /\ formData = initialFormData
    /\ currentStep = "basicDetails"
    /\ animationDirection = "forward"
    /\ errors = NoErrors
    /\ localStorage \in InitialStorages
    /\ toast = NoToast
    /\ consoleError = FALSE
    /\ mounted = FALSE
    /\ urlCounter = 0
    /\ events = 0
    /\ lastSave = NoSave

Selected(n) == [file |-> File("application/pdf", maxSize), preview |-> createObjectURL(n)]

SecondLegForm ==
    [loadDraft(savedDraft(CompleteForm)).formData EXCEPT
        !.professionalDetails.qualifications.document = Selected(1),
        !.professionalDetails.certifications[1].document = Selected(2)]

ThirdLegForm ==
    [SecondLegForm EXCEPT !.professionalDetails.barRegistration.document = Selected(3)]

SecondLeg ==
    /\ formData = SecondLegForm
    /\ currentStep = "professionalDetails"
    /\ animationDirection = "forward"
    /\ errors = NoErrors
    /\ localStorage = savedDraft(CompleteForm)
    /\ toast = DraftLoaded
    /\ consoleError = FALSE
    /\ mounted = TRUE
    /\ urlCounter = 2
    /\ events = 0
    /\ lastSave = NoSave

ThirdLeg ==
    /\ formData = ThirdLegForm
    /\ currentStep = "experience"
    /\ animationDirection = "forward"
    /\ errors = NoErrors
    /\ localStorage = savedDraft(CompleteForm)
    /\ toast = DraftLoaded
    /\ consoleError = FALSE
    /\ mounted = TRUE
    /\ urlCounter = 3
    /\ events = 0
    /\ lastSave = NoSave

Init == Constructed \/ SecondLeg \/ ThirdLeg

(***************************************************************************)
(* MultiStepForm                                                           *)
(***************************************************************************)
\* useEffect on mount: load the saved draft
LoadSavedDraft ==
    /\ ~mounted
    /\ mounted' = TRUE
    /\ LET r == loadDraft(localStorage)
       IN /\ formData' = r.formData
          /\ toast' = IF r.toast = NoToast THEN toast ELSE r.toast
          /\ consoleError' = (consoleError \/ r.logged)
    /\ UNCHANGED <<currentStep, animationDirection, errors, localStorage,
                   urlCounter, events, lastSave>>

\* the page is reloaded: the component is constructed anew (useState initial
\* values); localStorage survives
Reload ==
    /\ mounted
    /\ mounted' = FALSE
    /\ formData' = initialFormData
    /\ currentStep' = "basicDetails"
    /\ animationDirection' = "forward"
    /\ errors' = NoErrors
    /\ toast' = NoToast
    /\ consoleError' = FALSE
    /\ UNCHANGED <<localStorage, urlCounter, events, lastSave>>

\* handleNext that moves two steps ahead where it can
handleNextSkipsAStep ==
    LET currentIndex == findIndex(currentStep)
    IN IF currentIndex < Len(steps) - 2
       THEN /\ animationDirection' = "forward"
            /\ currentStep' = steps[(currentIndex + 2) + 1]
       ELSE IF currentIndex < Len(steps) - 1
       THEN /\ animationDirection' = "forward"
            /\ currentStep' = steps[(currentIndex + 1) + 1]
       ELSE UNCHANGED <<animationDirection, currentStep>>

\* handleNext that starts over after the last step
handleNextWrapsAround ==
    LET currentIndex == findIndex(currentStep)
    IN /\ animationDirection' = "forward"
       /\ currentStep' = steps[((currentIndex + 1) % Len(steps)) + 1]

handleNext ==
    LET currentIndex == findIndex(currentStep)
    IN IF currentIndex < Len(steps) - 1
       THEN /\ animationDirection' = "forward"
            /\ currentStep' = steps[(currentIndex + 1) + 1]
       ELSE UNCHANGED <<animationDirection, currentStep>>

\* handlePrevious without setAnimationDirection('backward')
handlePreviousKeepsDirection ==
    LET currentIndex == findIndex(currentStep)
    IN IF currentIndex > 0
       THEN /\ currentStep' = steps[(currentIndex - 1) + 1]
            /\ UNCHANGED animationDirection
       ELSE UNCHANGED <<animationDirection, currentStep>>

handlePrevious ==
    LET currentIndex == findIndex(currentStep)
    IN IF currentIndex > 0
       THEN /\ animationDirection' = "backward"
            /\ currentStep' = steps[(currentIndex - 1) + 1]
       ELSE UNCHANGED <<animationDirection, currentStep>>

handleSaveDraft ==
    /\ localStorage' = [data |-> formDataToSave(formData),
                        files |-> fileRefsToSave(formData)]
    /\ toast' = DraftSaved
    /\ lastSave' = [kind |-> "saved", currentStep |-> currentStep,
                    formData |-> formData]

handleBasicDetailsChange(data) ==
    formData' = [formData EXCEPT !.basicDetails = data]

handleProfessionalDetailsChange(data) ==
    formData' = [formData EXCEPT !.professionalDetails = data]

\* a change handler that builds the new form data without spreading prev
handleExperienceChangeWithoutSpread(data) ==
    formData' = [initialFormData EXCEPT !.experience = data]

handleExperienceChange(data) ==
    formData' = [formData EXCEPT !.experience = data]

handleIdentityVerificationChange(data) ==
    formData' = [formData EXCEPT !.identityVerification = data]

\* the form of `step` is the one rendered
Rendered(step) == mounted /\ currentStep = step

\* one more change or save event within the bound
Event == events < MaxEvents /\ events' = events + 1

\* a handleSubmit that calls onNext whatever validateForm returns
submitWithoutGate(issues) ==
    /\ errors' = IF issues = {} THEN NoErrors ELSE formattedErrors(issues)
    /\ handleNext

\* a validateForm that adds its failures to the error map it finds
submitAccumulates(issues) ==
    IF issues = {}
    THEN /\ errors' = NoErrors
         /\ handleNext
    ELSE /\ errors' = [p \in DOMAIN errors \cup DOMAIN formattedErrors(issues) |->
                          IF p \in DOMAIN formattedErrors(issues)
                          THEN formattedErrors(issues)[p]
                          ELSE errors[p]]
         /\ UNCHANGED <<currentStep, animationDirection>>

\* validateForm then, if valid, onNext (the same code in all four forms);
\* setErrors({}) on success, and the form mounted next starts with useState({})
submit(issues) ==
    IF issues = {}
    THEN /\ errors' = NoErrors
         /\ handleNext
    ELSE /\ errors' = formattedErrors(issues)
         /\ UNCHANGED <<currentStep, animationDirection>>

\* a Save Draft button that saves only a step whose data passes its validator
SaveDraftButtonWhenValid ==
    /\ mounted
    /\ currentStep # "verificationStatus"
    /\ StepSchema(currentStep, formData) = {}
    /\ Event
    /\ handleSaveDraft
    /\ UNCHANGED <<formData, currentStep, animationDirection, errors,
                   consoleError, mounted, urlCounter>>

\* the Save Draft button of a step form
SaveDraftButton ==
    /\ mounted
    /\ currentStep # "verificationStatus"
    /\ Event
    /\ handleSaveDraft
    /\ UNCHANGED <<formData, currentStep, animationDirection, errors,
                   consoleError, mounted, urlCounter>>

\* the Back / Skip button (no such button on basicDetails or verificationStatus)
PreviousButton ==
    /\ mounted
    /\ currentStep \in {"professionalDetails", "experience", "identityVerification"}
    /\ handlePrevious
    /\ errors' = NoErrors
    /\ UNCHANGED <<formData, localStorage, toast, consoleError, mounted,
                   urlCounter, events, lastSave>>

(***************************************************************************)
(* FileUpload                                                              *)
(***************************************************************************)
\* the FileUpload instances rendered on the current step; a certification's
\* slot carries its 0-based list index
Slot(section, index) == [section |-> section, index |-> index]

RenderedSlots ==
    IF ~mounted THEN {}
    ELSE IF currentStep = "professionalDetails"
    THEN {Slot("qualifications", 0), Slot("barRegistration", 0)}
         \cup {Slot("certifications", i - 1) :
               i \in 1..Len(formData.professionalDetails.certifications)}
    ELSE IF currentStep = "identityVerification"
    THEN {Slot("identityVerification", 0)}
    ELSE {}

\* the document a slot shows
SlotValue(fd, slot) ==
    CASE slot.section = "qualifications" ->
            fd.professionalDetails.qualifications.document
      [] slot.section = "barRegistration" ->
            fd.professionalDetails.barRegistration.document
      [] slot.section = "certifications" ->
            fd.professionalDetails.certifications[slot.index + 1].document
      [] slot.section = "identityVerification" ->
            fd.identityVerification.document

\* ProfessionalDetailsForm.handleCertificationChange
handleCertificationChange(index, field, value) ==
    LET data == formData.professionalDetails
        updatedCertifications ==
            [data.certifications EXCEPT ![index + 1] = [@ EXCEPT ![field] = value]]
    IN handleProfessionalDetailsChange(
           [data EXCEPT !.certifications = updatedCertifications])

\* the onChange prop each form passes to its FileUpload
onChange(slot, value) ==
    CASE slot.section = "qualifications" ->
            handleProfessionalDetailsChange(
                [formData.professionalDetails EXCEPT !.qualifications.document = value])
      [] slot.section = "barRegistration" ->
            handleProfessionalDetailsChange(
                [formData.professionalDetails EXCEPT !.barRegistration.document = value])
      [] slot.section = "certifications" ->
            handleCertificationChange(slot.index, "document", value)
      [] slot.section = "identityVerification" ->
            handleIdentityVerificationChange(
                [formData.identityVerification EXCEPT !.document = value])

\* a handler that forgets to return after the toast
selectFileWithoutReturn(slot, file) ==
    LET validation == validateFile(file)
    IN /\ toast' = IF validation.valid THEN toast ELSE InvalidFile(validation.message)
       /\ Event
       /\ urlCounter' = urlCounter + 1
       /\ onChange(slot, [file |-> file, preview |-> createObjectURL(urlCounter + 1)])

\* the body handleDrop and handleFileChange share: validate, then toast or onChange
selectFile(slot, file) ==
    LET validation == validateFile(file)
    IN IF ~validation.valid
       THEN /\ toast' = InvalidFile(validation.message)
            /\ UNCHANGED <<formData, urlCounter, events>>
       ELSE /\ Event
            /\ urlCounter' = urlCounter + 1
            /\ onChange(slot, [file |-> file, preview |-> createObjectURL(urlCounter + 1)])
            /\ UNCHANGED toast

handleDrop(slot, file) ==
    /\ slot \in RenderedSlots
    /\ selectFile(slot, file)
    /\ UNCHANGED <<currentStep, animationDirection, errors, localStorage,
                   consoleError, mounted, lastSave>>

handleFileChange(slot, file) ==
    /\ slot \in RenderedSlots
    /\ selectFile(slot, file)
    /\ UNCHANGED <<currentStep, animationDirection, errors, localStorage,
                   consoleError, mounted, lastSave>>

\* what an edit of the form data leaves alone
EditFrame ==
    UNCHANGED <<currentStep, animationDirection, errors, localStorage, toast,
                consoleError, mounted, urlCounter, lastSave>>

\* what an advance attempt leaves alone
SubmitFrame ==
    UNCHANGED <<formData, localStorage, toast, consoleError, mounted, urlCounter,
                events, lastSave>>

(***************************************************************************)
(* BasicDetailsForm                                                        *)
(***************************************************************************)
BasicDetailsForm_handleChange(field, value) ==
    /\ Rendered("basicDetails")
    /\ formData.basicDetails[field] # value
    /\ Event
    /\ handleBasicDetailsChange([formData.basicDetails EXCEPT ![field] = value])
    /\ EditFrame

BasicDetailsForm_handleSubmit ==
    /\ Rendered("basicDetails")
    /\ submit(basicDetailsSchema(formData.basicDetails))
    /\ SubmitFrame

(***************************************************************************)
(* ProfessionalDetailsForm                                                 *)
(***************************************************************************)
\* the inline onChange / onValueChange handlers of the qualification controls
QualificationChange(field, value) ==
    /\ Rendered("professionalDetails")
    /\ formData.professionalDetails.qualifications[field] # value
    /\ Event
    /\ handleProfessionalDetailsChange(
           [formData.professionalDetails EXCEPT !.qualifications[field] = value])
    /\ EditFrame

\* the inline handlers of the bar registration controls
BarRegistrationChange(field, value) ==
    /\ Rendered("professionalDetails")
    /\ formData.professionalDetails.barRegistration[field] # value
    /\ Event
    /\ handleProfessionalDetailsChange(
           [formData.professionalDetails EXCEPT !.barRegistration[field] = value])
    /\ EditFrame

\* a certification's text input or date picker
CertificationChange(index, field, value) ==
    /\ Rendered("professionalDetails")
    /\ index + 1 \in 1..Len(formData.professionalDetails.certifications)
    /\ formData.professionalDetails.certifications[index + 1][field] # value
    /\ Event
    /\ handleCertificationChange(index, field, value)
    /\ EditFrame

\* [...list].splice(index, 1)
\* a splice that always takes the last entry
spliceLast(list, index) ==
    [i \in 1..(Len(list) - 1) |-> list[i]]

\* updatedCertifications.splice(index, 1)
splice(list, index) ==
    [i \in 1..(Len(list) - 1) |-> IF i < index + 1 THEN list[i] ELSE list[i + 1]]

\* a removal that splices whatever the length of the list
certificationsAfterRemoveWithoutGuard(certifications, index) ==
    splice(certifications, index)

\* the list handleRemoveCertification(index) leaves: the list itself when it
\* returns early, the spliced copy it passes to onChange otherwise
certificationsAfterRemove(certifications, index) ==
    IF Len(certifications) <= 1
    THEN certifications
    ELSE splice(certifications, index)

handleAddCertification ==
    /\ Rendered("professionalDetails")
    /\ Len(formData.professionalDetails.certifications) < MaxCertifications
    /\ Event
    /\ LET data == formData.professionalDetails
           newCertification ==
               [name |-> "", issuingBody |-> "", date |-> "",
                document |-> [file |-> Null, preview |-> Null]]
       IN handleProfessionalDetailsChange(
              [data EXCEPT !.certifications = Append(@, newCertification)])
    /\ EditFrame

\* a removal that also drops the error map of the form
handleRemoveCertificationClearsErrors(index) ==
    /\ Rendered("professionalDetails")
    /\ index > 0
    /\ index + 1 \in 1..Len(formData.professionalDetails.certifications)
    /\ Event
    /\ handleProfessionalDetailsChange(
           [formData.professionalDetails EXCEPT
               !.certifications = certificationsAfterRemove(@, index)])
    /\ errors' = NoErrors
    /\ UNCHANGED <<currentStep, animationDirection, localStorage, toast,
                   consoleError, mounted, urlCounter, lastSave>>

\* the remove button is rendered for index > 0 only
handleRemoveCertification(index) ==
    /\ Rendered("professionalDetails")
    /\ index > 0
    /\ index + 1 \in 1..Len(formData.professionalDetails.certifications)
    /\ Event
    /\ LET data == formData.professionalDetails
       IN IF Len(data.certifications) <= 1
          THEN UNCHANGED formData
          ELSE handleProfessionalDetailsChange(
                   [data EXCEPT !.certifications = certificationsAfterRemove(@, index)])
    /\ EditFrame

ProfessionalDetailsForm_handleSubmit ==
    /\ Rendered("professionalDetails")
    /\ submit(professionalDetailsSchema(formData.professionalDetails))
    /\ SubmitFrame

(***************************************************************************)
(* ExperienceForm                                                          *)
(***************************************************************************)
\* an Add Position that puts the new entry first
handleAddPositionFirst ==
    /\ Rendered("experience")
    /\ Len(formData.experience.positions) < MaxPositions
    /\ Event
    /\ handleExperienceChange(
           [formData.experience EXCEPT !.positions = <<emptyPosition>> \o @])
    /\ EditFrame

\* the list handleRemovePosition(index) leaves: the spliced copy it passes to
\* onChange when the list has more than one entry, the list itself otherwise
positionsAfterRemove(positions, index) ==
    IF Len(positions) > 1
    THEN splice(positions, index)
    ELSE positions

handleAddPosition ==
    /\ Rendered("experience")
    /\ Len(formData.experience.positions) < MaxPositions
    /\ Event
    /\ handleExperienceChange(
           [formData.experience EXCEPT !.positions = Append(@, emptyPosition)])
    /\ EditFrame

\* the remove button is rendered for index > 0 only
handleRemovePosition(index) ==
    /\ Rendered("experience")
    /\ index > 0
    /\ index + 1 \in 1..Len(formData.experience.positions)
    /\ Event
    /\ IF Len(formData.experience.positions) > 1
       THEN handleExperienceChange(
                [formData.experience EXCEPT !.positions = positionsAfterRemove(@, index)])
       ELSE UNCHANGED formData
    /\ EditFrame

\* a handlePositionChange without the special handling of the checkbox
handlePositionChangeKeepsEndDate(index, field, value) ==
    /\ Rendered("experience")
    /\ index + 1 \in 1..Len(formData.experience.positions)
    /\ formData.experience.positions[index + 1][field] # value
    /\ field = "endDate" => ~formData.experience.positions[index + 1].current
    /\ Event
    /\ handleExperienceChange(
           [formData.experience EXCEPT !.positions[index + 1][field] = value])
    /\ EditFrame

\* the end-date picker is disabled while the position is current
handlePositionChange(index, field, value) ==
    /\ Rendered("experience")
    /\ index + 1 \in 1..Len(formData.experience.positions)
    /\ formData.experience.positions[index + 1][field] # value
    /\ field = "endDate" => ~formData.experience.positions[index + 1].current
    /\ Event
    /\ LET data == formData.experience
           updatedPositions ==
               IF field = "current" /\ value = TRUE
               THEN [data.positions EXCEPT ![index + 1] =
                        [@ EXCEPT ![field] = value, !.endDate = ""]]
               ELSE [data.positions EXCEPT ![index + 1] = [@ EXCEPT ![field] = value]]
       IN handleExperienceChange([data EXCEPT !.positions = updatedPositions])
    /\ EditFrame

ExperienceForm_handleSubmit ==
    /\ Rendered("experience")
    /\ submit(experienceSchema(formData.experience))
    /\ SubmitFrame

(***************************************************************************)
(* IdentityVerificationForm                                                *)
(***************************************************************************)
IdentityVerificationChange(field, value) ==
    /\ Rendered("identityVerification")
    /\ formData.identityVerification[field] # value
    /\ Event
    /\ handleIdentityVerificationChange(
           [formData.identityVerification EXCEPT ![field] = value])
    /\ EditFrame

IdentityVerificationForm_handleSubmit ==
    /\ Rendered("identityVerification")
    /\ submit(identityVerificationSchema(formData.identityVerification))
    /\ SubmitFrame

(***************************************************************************)
(* Specification                                                           *)
(***************************************************************************)
Next ==
    \/ LoadSavedDraft
    \/ Reload
    \/ SaveDraftButton
    \/ PreviousButton
    \/ \E slot \in RenderedSlots, file \in PickedFiles : handleDrop(slot, file)
    \/ \E slot \in RenderedSlots, file \in PickedFiles : handleFileChange(slot, file)
    \/ \E field \in DOMAIN BasicValues :
          \E value \in BasicValues[field] : BasicDetailsForm_handleChange(field, value)
    \/ BasicDetailsForm_handleSubmit
    \/ \E field \in DOMAIN QualificationValues :
          \E value \in QualificationValues[field] : QualificationChange(field, value)
    \/ \E field \in DOMAIN BarRegistrationValues :
          \E value \in BarRegistrationValues[field] : BarRegistrationChange(field, value)
    \/ \E index \in 0..(MaxCertifications - 1), field \in DOMAIN CertificationValues :
          \E value \in CertificationValues[field] : CertificationChange(index, field, value)
    \/ handleAddCertification
    \/ \E index \in 0..(MaxCertifications - 1) : handleRemoveCertification(index)
    \/ ProfessionalDetailsForm_handleSubmit
    \/ handleAddPosition
    \/ \E index \in 0..(MaxPositions - 1) : handleRemovePosition(index)
    \/ \E index \in 0..(MaxPositions - 1), field \in DOMAIN PositionValues :
          \E value \in PositionValues[field] : handlePositionChange(index, field, value)
    \/ ExperienceForm_handleSubmit
    \/ \E field \in DOMAIN IdentityValues :
          \E value \in IdentityValues[field] : IdentityVerificationChange(field, value)
    \/ IdentityVerificationForm_handleSubmit

Spec == Init /\ [][Next]_vars

(***************************************************************************)
(* The FileUpload component alone, over every file of Files: the upload    *)
(* area of identityVerification, in the state ThirdLeg reaches by          *)
(* Continue (the experience data of the complete draft is valid)           *)
(***************************************************************************)
FourthLeg ==
    /\ formData = ThirdLegForm
    /\ currentStep = "identityVerification"
    /\ animationDirection = "forward"
    /\ errors = NoErrors
    /\ localStorage = savedDraft(CompleteForm)
    /\ toast = DraftLoaded
    /\ consoleError = FALSE
    /\ mounted = TRUE
    /\ urlCounter = 3
    /\ events = 0
    /\ lastSave = NoSave

DropFile == \E slot \in RenderedSlots, file \in Files : handleDrop(slot, file)

ChooseFile == \E slot \in RenderedSlots, file \in Files : handleFileChange(slot, file)

NextUpload == DropFile \/ ChooseFile

SpecUpload == FourthLeg /\ [][NextUpload]_vars

(***************************************************************************)
(* The mount effect alone, over what the two keys may hold when the page   *)
(* is opened: each key absent, not JSON, or written by a save; the two     *)
(* keys need not come from the same save (setItem is called once per key,  *)
(* and anything in the origin may write either).  A stored certification   *)
(* list has up to MaxStoredCertifications entries, each with or without a  *)
(* preview; the previews of Key A and Key B are told apart by their tags.  *)
(***************************************************************************)
MaxStoredCertifications == 2

\* the lists of length 0..MaxStoredCertifications that say, entry by entry,
\* whether a preview is stored
PreviewLists ==
    UNION {[1..n -> BOOLEAN] : n \in 0..MaxStoredCertifications}

StoredPreview(present, tag) == IF present THEN EarlierURL(tag) ELSE Null

\* a form as a save of an earlier session leaves it under Key A
StoredForm(qualification, certifications) ==
    [CompleteForm EXCEPT
        !.professionalDetails.qualifications.document =
            [file |-> Null, preview |-> StoredPreview(qualification, "A-q")],
        !.professionalDetails.barRegistration.document =
            [file |-> Null, preview |-> EarlierURL("A-b")],
        !.professionalDetails.certifications =
            [i \in 1..Len(certifications) |->
                [name |-> "CIPP", issuingBody |-> "IAPP",
                 date |-> "2020-01-01T00:00:00.000Z",
                 document |->
                    [file |-> Null,
                     preview |-> StoredPreview(certifications[i],
                                               "A-c" \o ToString(i - 1))]]],
        !.identityVerification.document = [file |-> Null, preview |-> Null]]

\* the file references a save of an earlier session leaves under Key B
StoredFileRefs(qualification, certifications) ==
    [qualifications |-> [preview |-> StoredPreview(qualification, "B-q")],
     barRegistration |-> [preview |-> Null],
     certifications |->
        [i \in 1..Len(certifications) |->
            [preview |-> StoredPreview(certifications[i], "B-c" \o ToString(i - 1))]],
     identityVerification |-> [preview |-> EarlierURL("B-i")]]

KeyAContents ==
    {Null, NotJSON}
    \cup {JSONText(StoredForm(q, c)) : q \in BOOLEAN, c \in PreviewLists}

KeyBContents ==
    {Null, NotJSON}
    \cup {JSONText(StoredFileRefs(q, c)) : q \in BOOLEAN, c \in PreviewLists}

LoadStorages == [data : KeyAContents, files : KeyBContents]

ConstructedForLoad ==
    /\ formData = initialFormData
    /\ currentStep = "basicDetails"
    /\ animationDirection = "forward"
    /\ errors = NoErrors
    /\ localStorage \in LoadStorages
    /\ toast = NoToast
    /\ consoleError = FALSE
    /\ mounted = FALSE
    /\ urlCounter = 0
    /\ events = 0
    /\ lastSave = NoSave

NextLoad == LoadSavedDraft \/ Reload

SpecLoad == ConstructedForLoad /\ [][NextLoad]_vars

(***************************************************************************)
(* The certification list through removal, save and reload.  The initial   *)
(* state is the one Constructed reaches by loading the draft with three    *)
(* certifications, advancing, and selecting a document for each of the     *)
(* three.                                                                  *)
(***************************************************************************)
CertificationLegForm ==
    [loadDraft(savedDraft(ThreeCertificationForm)).formData EXCEPT
        !.professionalDetails.certifications[1].document = Selected(1),
        !.professionalDetails.certifications[2].document = Selected(2),
        !.professionalDetails.certifications[3].document = Selected(3)]

CertificationLeg ==
    /\ formData = CertificationLegForm
    /\ currentStep = "professionalDetails"
    /\ animationDirection = "forward"
    /\ errors = NoErrors
    /\ localStorage = savedDraft(ThreeCertificationForm)
    /\ toast = DraftLoaded
    /\ consoleError = FALSE
    /\ mounted = TRUE
    /\ urlCounter = 3
    /\ events = 0
    /\ lastSave = NoSave

RemoveCertification ==
    \E index \in 0..(MaxCertifications - 1) : handleRemoveCertification(index)

DropOnCertification ==
    \E slot \in {r \in RenderedSlots : r.section = "certifications"},
       file \in PickedFiles : handleDrop(slot, file)

NextCertifications ==
    \/ RemoveCertification
    \/ handleAddCertification
    \/ DropOnCertification
    \/ SaveDraftButton
    \/ Reload
    \/ LoadSavedDraft
    \/ BasicDetailsForm_handleSubmit

SpecCertifications == CertificationLeg /\ [][NextCertifications]_vars

(***************************************************************************)
(* The four validators alone.  Each initial state is a wizard on one of    *)
(* the data-entry steps whose section holds one of the records below, the  *)
(* other sections being filled in completely; such data is reached by      *)
(* editing, or, for an empty list or an end date next to current, by       *)
(* loading a draft that holds it.  Lists have up to MaxListLength entries. *)
(***************************************************************************)
MaxListLength == 2

\* what a document slot can hold: nothing, a selected file, or the preview
\* a reload leaves
DocumentVariants(n) ==
    {emptyFile, Selected(n), [file |-> Null, preview |-> createObjectURL(n)]}

SequencesUpTo(n, S) == UNION {[1..k -> S] : k \in 0..n}

BasicRecords ==
    [firstName : {"", "Jane"}, lastName : {"", "Doe"},
     email : {"", "a@b.com", "not-an-email"}]

\* a complete record and the records that differ from it in one field
OneFieldCleared(complete, fields) ==
    {complete} \cup {[complete EXCEPT ![f] = ""] : f \in fields}

QualificationRecords ==
    LET complete == [degreeType |-> "Juris Doctor (JD)", institutionName |-> "Yale",
                     graduationYear |-> "2010", document |-> Selected(1)]
    IN OneFieldCleared(complete, {"degreeType", "institutionName", "graduationYear"})
       \cup {[complete EXCEPT !.document = d] : d \in DocumentVariants(1)}

BarRegistrationRecords ==
    LET complete == [association |-> "State Bar of California",
                     licenseNumber |-> "12345", jurisdiction |-> "California",
                     completionYear |-> "2012", document |-> Selected(2)]
    IN OneFieldCleared(complete, {"association", "licenseNumber", "jurisdiction",
                                  "completionYear"})
       \cup {[complete EXCEPT !.document = d] : d \in DocumentVariants(2)}

\* certification records, their documents still to be numbered by position
CertificationRecords ==
    LET complete == [name |-> "CIPP", issuingBody |-> "IAPP",
                     date |-> "2020-01-01T00:00:00.000Z", document |-> "file"]
    IN OneFieldCleared(complete, {"name", "issuingBody", "date"})
       \cup {[complete EXCEPT !.document = d] : d \in {"none", "preview"}}

CertificationLists ==
    {[i \in 1..Len(list) |->
        [list[i] EXCEPT !.document =
            CASE @ = "file" -> Selected(3 + i)
              [] @ = "preview" -> [file |-> Null, preview |-> createObjectURL(3 + i)]
              [] OTHER -> emptyFile]] :
     list \in SequencesUpTo(MaxListLength, CertificationRecords)}

ProfessionalRecords ==
    [qualifications : QualificationRecords,
     certifications : CertificationLists,
     barRegistration : BarRegistrationRecords]

PositionRecords ==
    LET complete == [title |-> "Associate", company |-> "Acme",
                     startDate |-> "2015-01-01T00:00:00.000Z", endDate |-> "",
                     current |-> FALSE, description |-> "Litigation"]
    IN {[r EXCEPT !.endDate = e, !.current = c] :
        r \in OneFieldCleared(complete, {"title", "company", "startDate",
                                         "description"}),
        e \in {"", "2019-01-01T00:00:00.000Z"}, c \in BOOLEAN}

ExperienceRecords == [positions : SequencesUpTo(MaxListLength, PositionRecords)]

IdentityRecords ==
    [idType : {"", "Passport"}, idNumber : {"", "X1234567"},
     expiryDate : {"", "2030-01-01T00:00:00.000Z"},
     document : DocumentVariants(3)]

\* every section filled in, every document selected in this session
CompleteSelectedForm ==
    [CompleteForm EXCEPT
        !.professionalDetails.qualifications.document = Selected(1),
        !.professionalDetails.barRegistration.document = Selected(2),
        !.professionalDetails.certifications[1].document = Selected(4),
        !.identityVerification.document = Selected(3)]

ValidationForms ==
    [step \in {"basicDetails", "professionalDetails", "experience",
               "identityVerification"} |->
        CASE step = "basicDetails" ->
                {[CompleteSelectedForm EXCEPT !.basicDetails = r] : r \in BasicRecords}
          [] step = "professionalDetails" ->
                {[CompleteSelectedForm EXCEPT !.professionalDetails = r] :
                 r \in ProfessionalRecords}
          [] step = "experience" ->
                {[CompleteSelectedForm EXCEPT !.experience = r] : r \in ExperienceRecords}
          [] step = "identityVerification" ->
                {[CompleteSelectedForm EXCEPT !.identityVerification = r] :
                 r \in IdentityRecords}]

OnAStep ==
    /\ currentStep \in DOMAIN ValidationForms
    /\ formData \in ValidationForms[currentStep]
    /\ animationDirection = "forward"
    /\ errors = NoErrors
    /\ localStorage = [data |-> Null, files |-> Null]
    /\ toast = NoToast
    /\ consoleError = FALSE
    /\ mounted = TRUE
    /\ urlCounter = 3 + MaxListLength
    /\ events = 0
    /\ lastSave = NoSave

NextValidation ==
    \/ BasicDetailsForm_handleSubmit
    \/ ProfessionalDetailsForm_handleSubmit
    \/ ExperienceForm_handleSubmit
    \/ IdentityVerificationForm_handleSubmit
    \/ PreviousButton

SpecValidation == OnAStep /\ [][NextValidation]_vars

(***************************************************************************)
(* Properties                                                              *)
(***************************************************************************)
DataEntrySteps ==
    {"basicDetails", "professionalDetails", "experience", "identityVerification"}

\* the fixed order of the wizard, written out
SuccessorOf ==
    [basicDetails |-> "professionalDetails",
     professionalDetails |-> "experience",
     experience |-> "identityVerification",
     identityVerification |-> "verificationStatus"]

PredecessorOf ==
    [professionalDetails |-> "basicDetails",
     experience |-> "professionalDetails",
     identityVerification |-> "experience"]

\* the Continue button of a step
AdvanceAttempt(step) ==
    CASE step = "basicDetails" -> BasicDetailsForm_handleSubmit
      [] step = "professionalDetails" -> ProfessionalDetailsForm_handleSubmit
      [] step = "experience" -> ExperienceForm_handleSubmit
      [] step = "identityVerification" -> IdentityVerificationForm_handleSubmit

\* every document slot of a form record
AllDocuments(fd) ==
    {fd.professionalDetails.qualifications.document,
     fd.professionalDetails.barRegistration.document,
     fd.identityVerification.document}
    \cup {fd.professionalDetails.certifications[i].document :
          i \in 1..Len(fd.professionalDetails.certifications)}

\* a form record with its document slots blanked: the non-file fields
NonFileFields(fd) ==
    [fd EXCEPT
       !.professionalDetails.qualifications.document = emptyFile,
       !.professionalDetails.barRegistration.document = emptyFile,
       !.professionalDetails.certifications =
           [i \in 1..Len(fd.professionalDetails.certifications) |->
               [fd.professionalDetails.certifications[i] EXCEPT !.document = emptyFile]],
       !.identityVerification.document = emptyFile]

\* the error-map key of a slot's file
SlotErrorPath(slot) ==
    CASE slot.section = "qualifications" -> "qualifications.document.file"
      [] slot.section = "barRegistration" -> "barRegistration.document.file"
      [] slot.section = "certifications" ->
            "certifications." \o ToString(slot.index) \o ".document.file"
      [] slot.section = "identityVerification" -> "document.file"

\* the format a declared MIME type names
DeclaredFormat(type) ==
    CASE type = "application/pdf" -> "PDF"
      [] type \in {"image/jpeg", "image/jpg"} -> "JPEG"
      [] type = "image/png" -> "PNG"
      [] OTHER -> "other"

\* the mount effect runs in a session that saved a draft before the reload
LoadAfterSave == ~mounted /\ mounted' /\ lastSave.kind = "saved"

\* C1: at each of the four data-entry steps a Continue attempt runs the
\* step's validator on the step's current data; when it fails the current
\* step is unchanged and the error map is set to the failures, when it
\* passes the current step becomes the immediate successor and the
\* direction hint is 'forward' (a Continue that changes nothing
\* at all, a repeated failure, is a stuttering step)
C1_AdvanceIsGatedByValidation ==
    [][\A step \in DataEntrySteps :
          (/\ currentStep = step
           /\ vars' # vars
           /\ UNCHANGED <<formData, toast>>
           /\ AdvanceAttempt(step)) =>
              IF StepSchema(step, formData) # {}
              THEN /\ currentStep' = step
                   /\ errors' = formattedErrors(StepSchema(step, formData))
                   /\ errors' # NoErrors
              ELSE /\ currentStep' = SuccessorOf[step]
                   /\ animationDirection' = "forward"]_vars

\* a failed Continue on identityVerification, a step reached only by three
\* successful ones
C1_Witness ==
    /\ currentStep = "identityVerification"
    /\ errors # NoErrors
    /\ StepSchema("identityVerification", formData) # {}

\* C2: after a draft is saved and then loaded every document slot has no
\* file, also where it has a preview; and a Continue attempt on
\* professionalDetails or identityVerification with a file missing from any
\* slot of the step stays on the step with 'Document is required' on each
\* such slot
C2_LoadedDraftHasNoFiles ==
    [][/\ LoadAfterSave =>
             \A document \in AllDocuments(formData') : document.file = Null
       /\ \A step \in {"professionalDetails", "identityVerification"} :
             (/\ currentStep = step
              /\ vars' # vars
              /\ UNCHANGED <<formData, toast>>
              /\ AdvanceAttempt(step)
              /\ \E slot \in RenderedSlots : SlotValue(formData, slot).file = Null)
             => /\ currentStep' = step
                /\ \A slot \in RenderedSlots :
                      SlotValue(formData, slot).file = Null =>
                          /\ SlotErrorPath(slot) \in DOMAIN errors'
                          /\ errors'[SlotErrorPath(slot)] = "Document is required"]_vars

\* a draft saved with a file in a slot was loaded, the slot came back with
\* its preview and no file, and Continue on that step was refused
C2_Witness ==
    /\ lastSave.kind = "saved"
    /\ lastSave.formData.professionalDetails.qualifications.document.file # Null
    /\ currentStep = "professionalDetails"
    /\ formData.professionalDetails.qualifications.document.file = Null
    /\ formData.professionalDetails.qualifications.document.preview # Null
    /\ "qualifications.document.file" \in DOMAIN errors

\* C3 as stated: save then load of a wizard state with no file slot
\* populated gives back the same current step and the same data, whatever
\* step the draft was saved on
C3_RoundTripKeepsStep ==
    [][(/\ LoadAfterSave
        /\ \A document \in AllDocuments(lastSave.formData) : document = emptyFile)
       => /\ formData' = lastSave.formData
          /\ currentStep' = lastSave.currentStep]_vars

\* C3: save then load of a wizard state with no file slot populated gives
\* back deep-equal data; the current step is not part of the draft, and
\* the wizard is on basicDetails after the load whatever step it was
\* saved on
C3_RoundTripOfData ==
    [][(/\ LoadAfterSave
        /\ \A document \in AllDocuments(lastSave.formData) : document = emptyFile)
       => /\ formData' = lastSave.formData
          /\ currentStep' = "basicDetails"]_vars

\* a draft saved on professionalDetails with no slot populated and data
\* other than the defaults has been loaded
C3_Witness ==
    /\ mounted
    /\ toast = DraftLoaded
    /\ lastSave.kind = "saved"
    /\ lastSave.currentStep = "professionalDetails"
    /\ \A document \in AllDocuments(lastSave.formData) : document = emptyFile
    /\ formData = lastSave.formData
    /\ formData # initialFormData
    /\ currentStep = "basicDetails"

\* C4: save then load restores every non-file field of all four sections,
\* and the certification and position lists in length and order, as they
\* were at the moment of the save
C4_NonFileFieldsRoundTrip ==
    [][LoadAfterSave => NonFileFields(formData') = NonFileFields(lastSave.formData)]_vars

\* a draft with a file in a slot and a second position has been saved and
\* loaded: the non-file fields are back, the record as a whole is not
C4_Witness ==
    /\ mounted
    /\ toast = DraftLoaded
    /\ lastSave.kind = "saved"
    /\ \E document \in AllDocuments(lastSave.formData) : document.file # Null
    /\ NonFileFields(formData) = NonFileFields(lastSave.formData)
    /\ NonFileFields(formData) # NonFileFields(initialFormData)
    /\ formData # lastSave.formData

\* C5 as stated: when the content under either storage key fails to parse,
\* the load is treated as no draft: the form data stays the all-empty
\* defaults, no toast is shown, and the failure is logged
C5_MalformedDraftIsNoDraft ==
    [][(/\ ~mounted
        /\ mounted'
        /\ \/ localStorage.data = NotJSON
           \/ localStorage.data # Null /\ localStorage.files = NotJSON)
       => /\ formData' = initialFormData
          /\ toast' = toast
          /\ consoleError']_vars

\* C6: a selected or dropped file that fails the validator is never
\* written: the form data, the slot's file and preview included, is
\* unchanged, and the only effect is the notification
C6_RejectedFileIsNotWritten ==
    [][\A slot \in RenderedSlots, file \in Files :
          (/\ ~validateFile(file).valid
           /\ handleDrop(slot, file) \/ handleFileChange(slot, file))
          => /\ formData' = formData
             /\ toast' = InvalidFile(validateFile(file).message)
             /\ UNCHANGED <<currentStep, animationDirection, errors, localStorage,
                            consoleError, mounted, urlCounter, events, lastSave>>]_vars

\* a file was rejected on identityVerification and the slot still holds
\* the document selected before
C6_Witness ==
    /\ toast.title = "Invalid file"
    /\ currentStep = "identityVerification"
    /\ formData.identityVerification.document =
           [file |-> File("image/png", 1024), preview |-> createObjectURL(4)]

\* C7: every file held in any document slot of the store has an accepted
\* declared type and a size of at most 5*1024*1024 bytes
C7_StoredFilesPassedValidation ==
    \A document \in AllDocuments(formData) :
        document.file # Null =>
            /\ DeclaredFormat(document.file.type) \in {"PDF", "JPEG", "PNG"}
            /\ document.file.size <= 5 * 1024 * 1024

\* all four kinds of slot hold a file, the identity document selected last
C7_Witness ==
    /\ \A document \in AllDocuments(formData) : document.file # Null
    /\ currentStep = "identityVerification"
    /\ urlCounter >= 4

\* C8: the validator accepts exactly the declared types PDF, JPEG and PNG;
\* a file of any other declared type is invalid with the type message
\* whatever its size, and a file of one of the three is never refused for
\* its type
C8_TypeRule ==
    [][\A slot \in RenderedSlots, file \in Files :
          (handleDrop(slot, file) \/ handleFileChange(slot, file)) =>
              IF DeclaredFormat(file.type) \notin {"PDF", "JPEG", "PNG"}
              THEN /\ validateFile(file) =
                         [valid |-> FALSE,
                          message |-> "Only PDF, JPG, and PNG files are allowed"]
                   /\ toast'.description = "Only PDF, JPG, and PNG files are allowed"
                   /\ formData' = formData
              ELSE /\ validateFile(file).message #
                         "Only PDF, JPG, and PNG files are allowed"
                   /\ \/ SlotValue(formData', slot).file = file
                      \/ toast'.description = "File size must be less than 5MB"]_vars

\* a file has been refused with the type message
C8_Witness ==
    /\ toast.title = "Invalid file"
    /\ toast.description = "Only PDF, JPG, and PNG files are allowed"
    /\ events > 0

\* C9: a file of an accepted type is valid if and only if its size is at
\* most 5*1024*1024 bytes, a file of exactly that size included; otherwise
\* it is invalid with the size message
C9_SizeRule ==
    [][\A slot \in RenderedSlots, file \in Files :
          (/\ handleDrop(slot, file) \/ handleFileChange(slot, file)
           /\ DeclaredFormat(file.type) \in {"PDF", "JPEG", "PNG"})
          => IF file.size <= 5 * 1024 * 1024
             THEN /\ validateFile(file).valid
                  /\ SlotValue(formData', slot).file = file
                  /\ toast' = toast
             ELSE /\ validateFile(file) =
                        [valid |-> FALSE,
                         message |-> "File size must be less than 5MB"]
                  /\ toast'.description = "File size must be less than 5MB"
                  /\ formData' = formData]_vars

\* a JPEG of exactly 5*1024*1024 bytes was accepted into the identity
\* document slot, and a larger file was then refused
C9_Witness ==
    /\ formData.identityVerification.document.file =
           File("image/jpeg", 5 * 1024 * 1024)
    /\ toast.description = "File size must be less than 5MB"

\* C10: from professionalDetails, experience or identityVerification the
\* Previous button is always available, whatever the validity of the
\* step's data, and moves to the immediately preceding step with the
\* direction hint 'backward', recording no validation failure and leaving
\* the data alone; retreat on basicDetails changes nothing
C10_Retreat ==
    /\ [][PreviousButton =>
             /\ currentStep' = PredecessorOf[currentStep]
             /\ animationDirection' = "backward"
             /\ errors' = NoErrors
             /\ formData' = formData]_vars
    /\ [](mounted /\ currentStep \in DOMAIN PredecessorOf => ENABLED PreviousButton)
    /\ [](currentStep = "basicDetails" =>
             ~ENABLED (/\ handlePrevious
                       /\ <<currentStep, animationDirection>>' #
                              <<currentStep, animationDirection>>))

\* the wizard went back from experience while the experience data was invalid
C10_Witness ==
    /\ currentStep = "professionalDetails"
    /\ animationDirection = "backward"
    /\ StepSchema("experience", formData) # {}

\* the position of each step in the fixed order
StepIndexOf ==
    [basicDetails |-> 0, professionalDetails |-> 1, experience |-> 2,
     identityVerification |-> 3, verificationStatus |-> 4]

\* C11: within a session every change of the current step moves to an
\* immediate neighbour in the fixed order: the step index changes by
\* exactly one, and no operation jumps to another step (a page reload
\* constructs the wizard anew and is not an operation of the wizard)
C11_OnlyNeighbourMoves ==
    [][(mounted' /\ currentStep' # currentStep) =>
          \/ StepIndexOf[currentStep'] = StepIndexOf[currentStep] + 1
          \/ StepIndexOf[currentStep'] = StepIndexOf[currentStep] - 1]_vars

\* the wizard has moved forward to identityVerification and back to experience
C11_Witness ==
    /\ currentStep = "experience"
    /\ animationDirection = "backward"
    /\ urlCounter >= 4

\* C12: verificationStatus is terminal: handleNext on it changes neither
\* the current step nor the direction hint, and within a session no
\* operation changes the current step once it is verificationStatus
C12_VerificationStatusIsTerminal ==
    /\ [](currentStep = "verificationStatus" =>
             ~ENABLED (/\ handleNext
                       /\ <<currentStep, animationDirection>>' #
                              <<currentStep, animationDirection>>))
    /\ [][(currentStep = "verificationStatus" /\ mounted') =>
             currentStep' = "verificationStatus"]_vars

\* the wizard has reached verificationStatus by a successful Continue on
\* identityVerification
C12_Witness ==
    /\ mounted
    /\ currentStep = "verificationStatus"
    /\ animationDirection = "forward"
    /\ StepSchema("identityVerification", formData) = {}

\* a form record with the file of every document slot set to null
WithNullFiles(fd) ==
    LET nulled(r) == [r EXCEPT !.document.file = Null]
    IN [fd EXCEPT
          !.professionalDetails.qualifications = nulled(@),
          !.professionalDetails.barRegistration = nulled(@),
          !.professionalDetails.certifications =
              [i \in 1..Len(fd.professionalDetails.certifications) |->
                  nulled(fd.professionalDetails.certifications[i])],
          !.identityVerification = nulled(@)]

\* C13: every save writes both keys: Key A holds the form data with every
\* document file null and every other field as in the store, Key B holds
\* one preview per document slot, the certifications in list order; and
\* no file is ever present in the persisted data
C13_SaveWritesBothKeys ==
    /\ [][SaveDraftButton =>
             /\ localStorage'.data = [kind |-> "json", value |-> WithNullFiles(formData)]
             /\ localStorage'.files.kind = "json"
             /\ LET refs == localStorage'.files.value
                    pd == formData.professionalDetails
                IN /\ refs.qualifications = [preview |-> pd.qualifications.document.preview]
                   /\ refs.barRegistration = [preview |-> pd.barRegistration.document.preview]
                   /\ refs.identityVerification =
                          [preview |-> formData.identityVerification.document.preview]
                   /\ Len(refs.certifications) = Len(pd.certifications)
                   /\ \A i \in 1..Len(pd.certifications) :
                          refs.certifications[i] =
                              [preview |-> pd.certifications[i].document.preview]]_vars
    /\ [](localStorage.data.kind = "json" =>
             \A document \in AllDocuments(localStorage.data.value) :
                 document.file = Null)

\* a draft was saved with two certifications in the list while the
\* qualification and the first certification held a selected file
C13_Witness ==
    /\ lastSave.kind = "saved"
    /\ toast = DraftSaved
    /\ Len(lastSave.formData.professionalDetails.certifications) = 2
    /\ lastSave.formData.professionalDetails.qualifications.document.file # Null
    /\ lastSave.formData.professionalDetails.certifications[1].document.file # Null
    /\ localStorage.data = [kind |-> "json", value |-> WithNullFiles(lastSave.formData)]

\* the mount effect runs with JSON under both keys
LoadWithBothKeys ==
    /\ ~mounted
    /\ mounted'
    /\ localStorage.data.kind = "json"
    /\ localStorage.files.kind = "json"

\* C14: when Key A is absent at load, the load is 'no draft' whatever Key B
\* holds: the wizard stays on basicDetails with the all-empty defaults
\* (one empty certification, one empty position, every document slot
\* empty) and no 'Draft loaded' notification is shown
C14_NoKeyAIsNoDraft ==
    [][(~mounted /\ mounted' /\ localStorage.data = Null) =>
          /\ currentStep' = "basicDetails"
          /\ formData' = initialFormData
          /\ Len(formData'.professionalDetails.certifications) = 1
          /\ Len(formData'.experience.positions) = 1
          /\ \A document \in AllDocuments(formData') :
                document = [file |-> Null, preview |-> Null]
          /\ formData'.basicDetails = [firstName |-> "", lastName |-> "", email |-> ""]
          /\ toast' = NoToast]_vars

\* the page was opened with previews under Key B and nothing under Key A
C14_Witness ==
    /\ mounted
    /\ localStorage.data = Null
    /\ localStorage.files.kind = "json"
    /\ localStorage.files.value.qualifications.preview # Null
    /\ Len(localStorage.files.value.certifications) = 2
    /\ formData = initialFormData

\* C15 as stated: a Key B preview is applied to the slot at the same
\* position, a Key B entry beyond the restored list is dropped, and a
\* restored slot Key B holds no preview for is left with an absent preview
C15_OverlayLeavesOthersAbsent ==
    [][LoadWithBothKeys =>
          LET stored == localStorage.data.value.professionalDetails
              refs == localStorage.files.value
              restored == formData'.professionalDetails
          IN /\ Len(restored.certifications) = Len(stored.certifications)
             /\ \A i \in 1..Len(restored.certifications) :
                   restored.certifications[i].document.preview =
                       IF i <= Len(refs.certifications)
                       THEN refs.certifications[i].preview
                       ELSE Null
             /\ restored.qualifications.document.preview = refs.qualifications.preview]_vars

\* C15: a Key B preview is applied to the slot at the same position, a Key
\* B entry beyond the restored list is dropped, and a restored slot Key B
\* holds no preview for keeps the preview stored for it under Key A, which
\* is absent only when Key A holds none; nothing but previews is changed
C15_OverlayIsPositional ==
    [][LoadWithBothKeys =>
          LET stored == localStorage.data.value.professionalDetails
              refs == localStorage.files.value
              restored == formData'.professionalDetails
              overlaid(fromA, fromB) == IF fromB # Null THEN fromB ELSE fromA
          IN /\ Len(restored.certifications) = Len(stored.certifications)
             /\ \A i \in 1..Len(restored.certifications) :
                   restored.certifications[i].document.preview =
                       IF i <= Len(refs.certifications)
                       THEN overlaid(stored.certifications[i].document.preview,
                                     refs.certifications[i].preview)
                       ELSE stored.certifications[i].document.preview
             /\ restored.qualifications.document.preview =
                   overlaid(stored.qualifications.document.preview,
                            refs.qualifications.preview)
             /\ restored.barRegistration.document.preview =
                   overlaid(stored.barRegistration.document.preview,
                            refs.barRegistration.preview)
             /\ formData'.identityVerification.document.preview =
                   overlaid(localStorage.data.value.identityVerification.document.preview,
                            refs.identityVerification.preview)
             /\ NonFileFields(formData') = NonFileFields(localStorage.data.value)
             /\ \A document \in AllDocuments(formData') : document.file = Null]_vars

\* a draft with two certifications was loaded with file references for one:
\* the first shows the preview of Key B, the second the one of Key A
C15_Witness ==
    /\ mounted
    /\ toast = DraftLoaded
    /\ localStorage.files.kind = "json"
    /\ Len(localStorage.files.value.certifications) = 1
    /\ Len(formData.professionalDetails.certifications) = 2
    /\ formData.professionalDetails.certifications[1].document.preview = EarlierURL("B-c0")
    /\ formData.professionalDetails.certifications[2].document.preview = EarlierURL("A-c1")

\* a list without its k-th entry (k counted from 1)
Without(list, k) == SubSeq(list, 1, k - 1) \o SubSeq(list, k + 1, Len(list))

\* the previews a certification list shows, in order
PreviewsOf(certifications) ==
    [i \in 1..Len(certifications) |-> certifications[i].document.preview]

\* the three certifications, each with a selected document
ThreeSelected == CertificationLegForm.professionalDetails.certifications

\* C16: removing a certification takes exactly that entry out of the list;
\* and after one of three certifications with selected documents is
\* removed and the draft is saved and loaded, the two remaining
\* certifications carry the previews they had, at their new indices, and
\* the preview of the removed one is on no slot
C16_RemovalRealignsPreviews ==
    /\ [][\A index \in 0..(MaxCertifications - 1) :
             handleRemoveCertification(index) =>
                 formData'.professionalDetails.certifications =
                     Without(formData.professionalDetails.certifications, index + 1)]_vars
    /\ [][\A k \in 1..3 :
             (/\ LoadAfterSave
              /\ lastSave.formData.professionalDetails.certifications =
                     Without(ThreeSelected, k))
             => /\ PreviewsOf(formData'.professionalDetails.certifications) =
                       Without(<<createObjectURL(1), createObjectURL(2),
                                 createObjectURL(3)>>, k)
                /\ \A document \in AllDocuments(formData') :
                       document.preview # createObjectURL(k)]_vars

\* the second of the three was removed, the draft saved and loaded
C16_Witness ==
    /\ mounted
    /\ toast = DraftLoaded
    /\ lastSave.kind = "saved"
    /\ lastSave.formData.professionalDetails.certifications = Without(ThreeSelected, 2)
    /\ PreviewsOf(formData.professionalDetails.certifications) =
           <<createObjectURL(1), createObjectURL(3)>>

\* the fields of a record, among the given ones, that are empty
EmptyFields(record, fields) == {f \in fields : record[f] = ""}

\* a Continue on the given step, as a step that changes the state
Continue(step) ==
    /\ currentStep = step
    /\ vars' # vars
    /\ formData' = formData
    /\ AdvanceAttempt(step)

\* C17: the basic-details validator gives an error map with exactly one
\* entry for each failing field among firstName (empty), lastName (empty)
\* and email (not a valid address) and no other entry; firstName '',
\* lastName 'Doe', email 'a@b.com' gives exactly firstName: 'First name is
\* required'
C17_BasicDetailsErrors ==
    [][Continue("basicDetails") =>
          LET data == formData.basicDetails
              message == [firstName |-> "First name is required",
                          lastName |-> "Last name is required",
                          email |-> "Invalid email address"]
              failing == EmptyFields(data, {"firstName", "lastName"})
                         \cup (IF data.email # "a@b.com" THEN {"email"} ELSE {})
          IN /\ errors' = [f \in failing |-> message[f]]
             /\ (currentStep' = "professionalDetails") <=> (failing = {})
             /\ data = [firstName |-> "", lastName |-> "Doe", email |-> "a@b.com"]
                   => errors' = [firstName |-> "First name is required"]]_vars

\* Continue was refused for firstName '', lastName 'Doe', email 'a@b.com'
C17_Witness ==
    /\ currentStep = "basicDetails"
    /\ formData.basicDetails = [firstName |-> "", lastName |-> "Doe", email |-> "a@b.com"]
    /\ errors = [firstName |-> "First name is required"]

\* the paths under which the professional-details record fails
ProfessionalFailures(data) ==
    LET documentMissing(r, path) ==
            IF r.document.file = Null THEN {path \o ".document.file"} ELSE {}
    IN {"qualifications." \o f :
        f \in EmptyFields(data.qualifications,
                          {"degreeType", "institutionName", "graduationYear"})}
       \cup documentMissing(data.qualifications, "qualifications")
       \cup (IF Len(data.certifications) = 0 THEN {"certifications"} ELSE {})
       \cup UNION {{"certifications." \o ToString(i - 1) \o "." \o f :
                    f \in EmptyFields(data.certifications[i],
                                      {"name", "issuingBody", "date"})}
                   \cup documentMissing(data.certifications[i],
                                        "certifications." \o ToString(i - 1)) :
                   i \in 1..Len(data.certifications)}
       \cup {"barRegistration." \o f :
             f \in EmptyFields(data.barRegistration,
                               {"association", "licenseNumber", "jurisdiction",
                                "completionYear"})}
       \cup documentMissing(data.barRegistration, "barRegistration")

\* C18: Continue on professionalDetails succeeds if and only if the
\* qualification, every certification of a list of at least one, and the
\* bar registration have all their fields non-empty and a file present;
\* every failure is reported under its dotted field path
C18_ProfessionalDetailsValidator ==
    [][Continue("professionalDetails") =>
          LET failures == ProfessionalFailures(formData.professionalDetails)
          IN /\ (currentStep' = "experience") <=> (failures = {})
             /\ DOMAIN errors' = failures]_vars

\* Continue was refused for an empty certification list, and for nothing else
C18_Witness ==
    /\ currentStep = "professionalDetails"
    /\ formData.professionalDetails.certifications = <<>>
    /\ DOMAIN errors = {"certifications"}

\* C19: Continue on experience is refused for a record with no position,
\* and otherwise succeeds if and only if every position has a non-empty
\* title, company, start date and description; the end date and the
\* current flag never matter
C19_ExperienceValidator ==
    [][Continue("experience") =>
          LET positions == formData.experience.positions
              complete ==
                  /\ Len(positions) >= 1
                  /\ \A i \in 1..Len(positions) :
                        EmptyFields(positions[i], {"title", "company", "startDate",
                                                   "description"}) = {}
          IN (currentStep' = "identityVerification") <=> complete]_vars

\* Continue succeeded with a position that is current and has an end date
C19_Witness ==
    /\ currentStep = "identityVerification"
    /\ animationDirection = "forward"
    /\ Len(formData.experience.positions) = 1
    /\ formData.experience.positions[1].current
    /\ formData.experience.positions[1].endDate # ""

\* an identity record with every field filled in and a file in its slot
IdentityComplete(data) ==
    /\ data.idType # ""
    /\ data.idNumber # ""
    /\ data.expiryDate # ""
    /\ data.document.file # Null

\* C20: Continue on identityVerification succeeds if and only if ID type,
\* ID number and expiry date are non-empty and the document slot holds a
\* file; and the wizard gets from identityVerification to
\* verificationStatus in no other way
C20_IdentityVerificationGate ==
    /\ [][Continue("identityVerification") =>
             ((currentStep' = "verificationStatus")
                 <=> IdentityComplete(formData.identityVerification))]_vars
    /\ [][currentStep' = "verificationStatus" /\ currentStep # "verificationStatus" =>
             /\ currentStep = "identityVerification"
             /\ IdentityVerificationForm_handleSubmit
             /\ IdentityComplete(formData.identityVerification)]_vars

\* Continue was refused on identityVerification for a slot that holds a
\* preview and no file, every field being filled in
C20_Witness ==
    /\ currentStep = "identityVerification"
    /\ EmptyFields(formData.identityVerification,
                   {"idType", "idNumber", "expiryDate"}) = {}
    /\ formData.identityVerification.document.file = Null
    /\ formData.identityVerification.document.preview # Null
    /\ DOMAIN errors = {"document.file"}

(***************************************************************************)
(* C21.  In every reachable state the certification list and the position  *)
(* list each hold at least one entry: the defaults hold one each, a draft   *)
(* written by a save holds the lists that were saved, and a removal asked   *)
(* of a list with one entry, at whatever index, leaves that list as it is.  *)
(* So the summary shown on verificationStatus finds positions[0].           *)
(***************************************************************************)
C21_ListsAreNeverEmpty ==
    LET certifications == formData.professionalDetails.certifications
        positions == formData.experience.positions
    IN /\ Len(certifications) >= 1
       /\ Len(positions) >= 1
       /\ \A index \in 0..MaxCertifications :
              /\ Len(certificationsAfterRemove(certifications, index)) >= 1
              /\ Len(certifications) = 1 =>
                     certificationsAfterRemove(certifications, index) = certifications
       /\ \A index \in 0..MaxPositions :
              /\ Len(positionsAfterRemove(positions, index)) >= 1
              /\ Len(positions) = 1 => positionsAfterRemove(positions, index) = positions
       /\ currentStep = "verificationStatus" => 1 \in DOMAIN positions

\* a position was added and removed again: one entry remains on the step
C21_Witness ==
    /\ Rendered("experience")
    /\ events = 2
    /\ formData = ThirdLegForm
    /\ Len(formData.experience.positions) = 1

(***************************************************************************)
(* C22.  An advance attempt runs the validator of the step: the form data  *)
(* is not changed; when the data passes, the error map is left empty (and   *)
(* onNext moves to the next step); when it fails, the current step stays    *)
(* and the error map becomes exactly the failures of the current data,      *)
(* one entry per failing path, whatever the map held before.                *)
(***************************************************************************)
C22_ValidatorFrame ==
    [][\A step \in DataEntrySteps :
          /\ currentStep = step
          /\ mounted' /\ events' = events /\ toast' = toast
          /\ AdvanceAttempt(step)
          => /\ formData' = formData
             /\ IF currentStep' # currentStep
                THEN /\ StepSchema(step, formData) = {}
                     /\ errors' = NoErrors
                     /\ currentStep' = SuccessorOf[step]
                ELSE /\ animationDirection' = animationDirection
                     /\ LET issues == StepSchema(step, formData)
                        IN /\ issues # {}
                           /\ DOMAIN errors' = {i.path : i \in issues}
                           /\ \A p \in DOMAIN errors' :
                                  \E i \in issues : i.path = p /\ i.message = errors'[p]]_vars

\* Continue was refused on the default record, then again after the first
\* name was entered: the entry for firstName is gone
C22_Witness ==
    /\ Rendered("basicDetails")
    /\ localStorage.data = Null
    /\ formData.basicDetails = [firstName |-> "Jane", lastName |-> "", email |-> ""]
    /\ errors = [lastName |-> "Last name is required", email |-> "Invalid email address"]

(***************************************************************************)
(* C23.  Every edit (a field change, an accepted file selection, an entry  *)
(* added or removed) replaces the sub-record of exactly one step, the step  *)
(* whose form is rendered; the other three sub-records, the current step    *)
(* and the direction hint are unchanged.                                    *)
(***************************************************************************)
C23_EditReplacesOneSubRecord ==
    [][mounted /\ mounted' /\ formData' # formData =>
          /\ currentStep \in DataEntrySteps
          /\ formData'[currentStep] # formData[currentStep]
          /\ \A step \in DataEntrySteps \ {currentStep} : formData'[step] = formData[step]
          /\ currentStep' = currentStep
          /\ animationDirection' = animationDirection]_vars

\* one position field was edited on the experience step
C23_Witness ==
    /\ Rendered("experience")
    /\ events = 1
    /\ formData.experience # ThirdLegForm.experience
    /\ formData = [ThirdLegForm EXCEPT !.experience = formData.experience]

(***************************************************************************)
(* C24.  Save Draft can be pressed on each of the four data-entry steps,   *)
(* whether or not the data of the step passes its validator, and apart      *)
(* from the notification it shows it changes only the persisted storage:    *)
(* the current step, the direction hint, the form data with its live file   *)
(* handles, and the error map are unchanged.                                *)
(***************************************************************************)
C24_SaveChangesOnlyStorage ==
    /\ [](mounted /\ currentStep \in DataEntrySteps /\ events < MaxEvents
             => ENABLED SaveDraftButton)
    /\ [][SaveDraftButton =>
             /\ currentStep' = currentStep
             /\ animationDirection' = animationDirection
             /\ formData' = formData
             /\ errors' = errors
             /\ mounted' = mounted
             /\ urlCounter' = urlCounter
             /\ consoleError' = consoleError]_vars

\* a draft was saved on a step whose data fails its validator, with a live
\* file handle in the form data and a non-empty error map, all still there
C24_Witness ==
    /\ lastSave.kind = "saved"
    /\ lastSave.currentStep = currentStep
    /\ lastSave.formData = formData
    /\ currentStep = "professionalDetails"
    /\ StepSchema(currentStep, formData) # {}
    /\ errors # NoErrors
    /\ formData.professionalDetails.qualifications.document.file # Null
    /\ localStorage = savedDraft(formData)

(***************************************************************************)
(* The wizard without its text, select and date inputs: the load effect,   *)
(* reload, save, navigation, file selection and the list buttons, from the  *)
(* initial states of Spec.  It holds every step that shows a toast.         *)
(***************************************************************************)
DropPicked == \E slot \in RenderedSlots, file \in PickedFiles : handleDrop(slot, file)

ChoosePicked ==
    \E slot \in RenderedSlots, file \in PickedFiles : handleFileChange(slot, file)

RemovePosition == \E index \in 0..(MaxPositions - 1) : handleRemovePosition(index)

NextNotifications ==
    \/ LoadSavedDraft
    \/ Reload
    \/ SaveDraftButton
    \/ PreviousButton
    \/ DropPicked
    \/ ChoosePicked
    \/ BasicDetailsForm_handleSubmit
    \/ ProfessionalDetailsForm_handleSubmit
    \/ ExperienceForm_handleSubmit
    \/ IdentityVerificationForm_handleSubmit
    \/ handleAddCertification
    \/ RemoveCertification
    \/ handleAddPosition
    \/ RemovePosition

SpecNotifications == Init /\ [][NextNotifications]_vars

\* the selection of `file` for `slot`, by drop or by the file dialog
Selection(slot, file) == handleDrop(slot, file) \/ handleFileChange(slot, file)

\* both storage keys that are present parse, and Key A is present
DraftParses(storage) ==
    /\ storage.data # Null
    /\ storage.data.kind = "json"
    /\ storage.files # Null => storage.files.kind = "json"

(***************************************************************************)
(* C25.  The toast is shown with 'Draft loaded' when the mount effect      *)
(* restores a draft, with 'Draft saved' on every save, and with 'Invalid    *)
(* file' and the message of the validator on every rejected file           *)
(* selection; the mount effect shows no toast when Key A is absent or a     *)
(* stored value does not parse; nothing else shows a toast.                 *)
(***************************************************************************)
C25_Notifications ==
    [][ /\ LoadSavedDraft =>
              IF DraftParses(localStorage)
              THEN toast' = DraftLoaded
              ELSE toast' = NoToast /\ toast = NoToast
        /\ SaveDraftButton => toast' = DraftSaved
        /\ \A slot \in RenderedSlots, file \in PickedFiles :
               Selection(slot, file) =>
                   /\ file.type \notin validTypes =>
                          toast' = InvalidFile(TypeMessage) /\ formData' = formData
                   /\ file.type \in validTypes /\ file.size > maxSize =>
                          toast' = InvalidFile(SizeMessage) /\ formData' = formData
                   /\ file.type \in validTypes /\ file.size <= maxSize =>
                          toast' = toast /\ formData' # formData
        /\ toast' # toast =>
               \/ LoadSavedDraft
               \/ Reload
               \/ SaveDraftButton
               \/ \E slot \in RenderedSlots, file \in PickedFiles :
                      ~validateFile(file).valid /\ Selection(slot, file)]_vars

\* a draft was saved and a file was then rejected: the toast of the save has
\* been replaced by the toast of the rejection
C25_Witness ==
    /\ lastSave.kind = "saved"
    /\ localStorage = savedDraft(formData)
    /\ toast = InvalidFile(TypeMessage)

(***************************************************************************)
(* C26.  In every reachable state the stored data of every data-entry step *)
(* before the current step passes the validator of that step (the draft is  *)
(* loaded only while the wizard is on its first step); so on                *)
(* verificationStatus all four sub-records are valid, and every step the    *)
(* stepper draws as completed has valid data.                               *)
(***************************************************************************)
C26_EarlierStepsAreValid ==
    /\ \A step \in DataEntrySteps :
           StepIndexOf[step] < StepIndexOf[currentStep] => StepSchema(step, formData) = {}
    /\ currentStep = "verificationStatus" =>
           /\ basicDetailsSchema(formData.basicDetails) = {}
           /\ professionalDetailsSchema(formData.professionalDetails) = {}
           /\ experienceSchema(formData.experience) = {}
           /\ identityVerificationSchema(formData.identityVerification) = {}
    /\ \A step \in DataEntrySteps :
           isStepCompleted(step) => StepSchema(step, formData) = {}
    /\ ~mounted => currentStep = "basicDetails"

\* the last step, with the four steps before it drawn as completed
C26_Witness ==
    /\ Rendered("verificationStatus")
    /\ \A step \in DataEntrySteps :
           isStepCompleted(step) /\ StepSchema(step, formData) = {}

(***************************************************************************)
(* C27.  After a save the two keys agree: for the qualification, the bar   *)
(* registration, the identity document and every certification, the        *)
(* preview under Key B equals the preview under Key A, and the two          *)
(* certification lists have the same length.  So the overlay of the load    *)
(* effect applied to a draft written by a save returns the data of Key A    *)
(* unchanged.                                                               *)
(***************************************************************************)
C27_SavedKeysAgree ==
    lastSave.kind = "saved" =>
        /\ localStorage.data.kind = "json"
        /\ localStorage.files.kind = "json"
        /\ LET parsedData == localStorage.data.value
               fileRefs == localStorage.files.value
               pd == parsedData.professionalDetails
           IN /\ fileRefs.qualifications.preview = pd.qualifications.document.preview
              /\ fileRefs.barRegistration.preview = pd.barRegistration.document.preview
              /\ fileRefs.identityVerification.preview =
                     parsedData.identityVerification.document.preview
              /\ Len(fileRefs.certifications) = Len(pd.certifications)
              /\ \A i \in 1..Len(pd.certifications) :
                     fileRefs.certifications[i].preview =
                         pd.certifications[i].document.preview
              /\ restorePreviews(parsedData, fileRefs) = parsedData
              /\ loadDraft(localStorage).formData = parsedData

\* a draft saved with two certifications, the second without a preview and
\* the qualification with one
C27_Witness ==
    /\ lastSave.kind = "saved"
    /\ localStorage = savedDraft(lastSave.formData)
    /\ LET pd == localStorage.data.value.professionalDetails
       IN /\ Len(pd.certifications) = 2
          /\ pd.certifications[2].document.preview = Null
          /\ pd.qualifications.document.preview # Null

(***************************************************************************)
(* C28.  In every reachable state a position that is current has an empty  *)
(* end date.  Checking `current` clears the end date of that position in    *)
(* the same update and changes nothing else of it and no other position;    *)
(* the end date of a current position cannot be set, its picker being       *)
(* disabled.                                                                *)
(***************************************************************************)
C28_CurrentHasNoEndDate ==
    /\ [](\A i \in 1..Len(formData.experience.positions) :
              formData.experience.positions[i].current =>
                  formData.experience.positions[i].endDate = "")
    /\ [][\A index \in 0..(MaxPositions - 1) :
              handlePositionChange(index, "current", TRUE) =>
                  formData'.experience.positions =
                      [formData.experience.positions EXCEPT ![index + 1] =
                          [@ EXCEPT !.current = TRUE, !.endDate = ""]]]_vars
    /\ [](\A index \in 0..(MaxPositions - 1), value \in PositionValues.endDate :
              /\ index + 1 \in 1..Len(formData.experience.positions)
              /\ formData.experience.positions[index + 1].current
              => ~ENABLED handlePositionChange(index, "endDate", value))

\* a position that had an end date was marked current: the end date is
\* cleared and its other fields are as they were
C28_Witness ==
    /\ Rendered("experience")
    /\ CompleteForm.experience.positions[1].endDate # ""
    /\ formData.experience.positions[1] =
           [CompleteForm.experience.positions[1] EXCEPT !.current = TRUE, !.endDate = ""]

\* `after` is `list` without its entry at the 0-based `index`: one entry
\* fewer, the entries before it as they were, the later ones one place down
RemovedAt(list, index, after) ==
    /\ Len(after) = Len(list) - 1
    /\ \A j \in 1..index : after[j] = list[j]
    /\ \A j \in (index + 1)..(Len(list) - 1) : after[j] = list[j + 1]

(***************************************************************************)
(* C29.  Removing entry i of a certification or position list of n > 1     *)
(* entries leaves n - 1 entries, those before i unchanged and those after   *)
(* i moved down by one, in order; adding appends one entry with every       *)
(* field empty and leaves the others alone; a removal asked of a list of    *)
(* one entry leaves the list as it is.                                      *)
(***************************************************************************)
C29_ListOperations ==
    /\ [](LET certifications == formData.professionalDetails.certifications
              positions == formData.experience.positions
          IN /\ \A index \in 0..(Len(certifications) - 1) :
                    IF Len(certifications) > 1
                    THEN RemovedAt(certifications, index,
                                   certificationsAfterRemove(certifications, index))
                    ELSE certificationsAfterRemove(certifications, index) = certifications
             /\ \A index \in 0..(Len(positions) - 1) :
                    IF Len(positions) > 1
                    THEN RemovedAt(positions, index, positionsAfterRemove(positions, index))
                    ELSE positionsAfterRemove(positions, index) = positions)
    /\ [][/\ \A index \in 0..(MaxCertifications - 1) :
                 handleRemoveCertification(index) =>
                     RemovedAt(formData.professionalDetails.certifications, index,
                               formData'.professionalDetails.certifications)
          /\ \A index \in 0..(MaxPositions - 1) :
                 handleRemovePosition(index) =>
                     RemovedAt(formData.experience.positions, index,
                               formData'.experience.positions)
          /\ handleAddCertification =>
                 formData'.professionalDetails.certifications =
                     formData.professionalDetails.certifications \o
                         <<[name |-> "", issuingBody |-> "", date |-> "",
                            document |-> [file |-> Null, preview |-> Null]]>>
          /\ handleAddPosition =>
                 formData'.experience.positions =
                     formData.experience.positions \o
                         <<[title |-> "", company |-> "", startDate |-> "",
                            endDate |-> "", current |-> FALSE, description |-> ""]>>]_vars

\* the second of three certifications was removed and an empty one added
C29_Witness ==
    /\ Rendered("professionalDetails")
    /\ events = 2
    /\ LET restored == loadDraft(savedDraft(ThreeCertificationForm)).formData
           three == restored.professionalDetails.certifications
       IN formData.professionalDetails.certifications =
              <<three[1], three[3], initialCertification>>

(***************************************************************************)
(* C30.  While the form of a step stays mounted its error map changes only *)
(* on an advance attempt on that step: a field edit, a file selection       *)
(* (accepted or rejected), an added or removed certification or position    *)
(* and a save leave it unchanged, so an entry keyed by a list index stays   *)
(* under its key when an entry of the list is removed.  Retreating does not *)
(* write to the map either: it ends the lifetime of the form, and the form  *)
(* mounted next starts with an empty map.                                   *)
(***************************************************************************)
C30_ErrorsChangeOnlyOnAdvance ==
    [][ /\ mounted /\ mounted' /\ currentStep' = currentStep /\ errors' # errors =>
               currentStep \in DataEntrySteps /\ AdvanceAttempt(currentStep)
        /\ events' # events => errors' = errors
        /\ mounted /\ mounted' /\ toast' # toast => errors' = errors
        /\ mounted /\ mounted' /\ formData' # formData => errors' = errors
        /\ currentStep' # currentStep => errors' = NoErrors]_vars

\* Continue was refused with two certifications, and the second one was then
\* removed: its entries are still in the error map, under index 1
C30_Witness ==
    /\ Rendered("professionalDetails")
    /\ Len(formData.professionalDetails.certifications) = 1
    /\ "certifications.1.name" \in DOMAIN errors

====
